---- MODULE Spec2Model ----
(***************************************************************************)
(* Model of hmalib/lambdas/actions/action_performer.py: the lambda that    *)
(* pops action messages off the actions queue, performs the action named   *)
(* by each message's label and writes an ActionEvent audit row for it.     *)
(*                                                                         *)
(* One lambda_handler invocation is a sequential walk over                 *)
(* event["Records"]; pc is the handler's position.  The process (and with  *)
(* it the lru_cache of lambda_init_once, the records table and the log of  *)
(* handler invocations) outlives an invocation, so several invocations     *)
(* follow each other in one behaviour.                                     *)
(***************************************************************************)
EXTENDS Integers, Sequences, FiniteSets, TLC

\* ---------------------------------------------------------------- bounds
\* Longest batch (event["Records"]) the transport hands to one invocation.
MaxBatch == 3
\* Total number of SQS records the transport delivers over the process life.
MaxDelivered == 4

\* ---------------------------------------------------------------- values
Absent == "None"

BankedSignal(signal_id, bank_id, bank_name) ==
  [signal_id |-> signal_id, bank_id |-> bank_id, bank_name |-> bank_name]

ActionLabel(value) == [value |-> value]

ActionRule(name) == [name |-> name]

ActionMessage(content_key, matched_hash, signals, label, rules) ==
  [content_key |-> content_key,
   matched_hash |-> matched_hash,
   matching_banked_signals |-> signals,
   action_label |-> label,
   action_rules |-> rules]

NoMessage == ActionMessage("", "", <<>>, ActionLabel(""), <<>>)

\* The messages the upstream evaluator may have put on the queue.
Messages ==
  { ActionMessage("key", "hash",
                  << BankedSignal("2862392437204724", "bank 4", "te"),
                     BankedSignal("4194946153908639", "bank 5", "te") >>,
                  ActionLabel("EnqueForReview"),
                  << ActionRule("rule1"), ActionRule("rule2") >>),
    ActionMessage("key2", "hash2",
                  << BankedSignal("2862392437204724", "bank 4", "te") >>,
                  ActionLabel("Unregistered"),
                  << ActionRule("rule1") >>),
    ActionMessage("key3", "hash3",
                  << BankedSignal("4194946153908639", "bank 5", "te") >>,
                  ActionLabel("PostToWebhook"),
                  << >>) }

\* ------------------------------------------------------------ wire format
\* rule.to_aws_json(): one rule as one JSON blob.
RuleToAwsJson(rule) == << "json", rule.name >>

RuleFromAwsJson(blob) == ActionRule(blob[2])

\* [rule.to_aws_json() for rule in rules]
RulesToAwsJson(rules) == [k \in 1..Len(rules) |-> RuleToAwsJson(rules[k])]

\* [ActionRule.from_aws_json(blob) for blob in blobs]
RulesFromAwsJson(blobs) == [k \in 1..Len(blobs) |-> RuleFromAwsJson(blobs[k])]

\* ActionMessage.to_aws_json(): the SQS record body.
ToAwsJson(m) ==
  << "ActionMessage", m.content_key, m.matched_hash, m.matching_banked_signals,
     m.action_label.value, RulesToAwsJson(m.action_rules) >>

Malformed == << "garbage" >>

WellFormed(body) == Len(body) = 6 /\ body[1] = "ActionMessage"

\* ActionMessage.from_aws_json(body), for a well-formed body.
FromAwsJson(body) ==
  ActionMessage(body[2], body[3], body[4], ActionLabel(body[5]),
                RulesFromAwsJson(body[6]))

Bodies == { ToAwsJson(m) : m \in Messages } \cup { Malformed }

SeqsUpTo(S, n) == UNION { [1..k -> S] : k \in 0..n }

Batches == SeqsUpTo(Bodies, MaxBatch)

\* ------------------------------------------------------------------ state
VARIABLES
  pc,              \* position of lambda_handler: idle, init, loop, dispatch, record
  Records,         \* event["Records"] of the current (or last) invocation
  idx,             \* 1-based position of the sqs_record being processed
  action_message,  \* the deserialized message of the current record
  records_table,   \* the DynamoDB table: sequence of ActionEvent rows
  performed,       \* every perform_action call made: handler, argument, outcome
  registry,        \* label value -> action performer (what ActionPerformer.get sees)
  environ,         \* os.environ has CONFIG_TABLE_NAME
  initialized,     \* lru_cache of lambda_init_once holds a result
  initCalls,       \* executions of HMAConfig.initialize
  config,          \* the table name HMAConfig was initialized with
  clock,           \* datetime.datetime.now()
  result,          \* outcome of the invocation: none, success, raised
  error,           \* the exception that left lambda_handler: kind and record index
  log,             \* per record of this invocation: what was done for it
  tableAtStart,    \* Len(records_table) when the invocation began
  deliveredTotal,  \* SQS records handed over by the transport so far
  delivered,       \* per message: times it was deserialized
  completed,       \* per message: times its loop iteration ran to its end
  writeFailures    \* per message: times its write_to_table call raised

vars == << pc, Records, idx, action_message, records_table, performed, registry,
           environ, initialized, initCalls, config, clock, result, error, log,
           tableAtStart, deliveredTotal, delivered, completed,
                  writeFailures >>

Unset == "None"

\* os.environ["CONFIG_TABLE_NAME"]
ConfigTableName == "CONFIG_TABLE_NAME"

NoError == [kind |-> "none", at |-> 0]

Registered ==
  [l \in {"EnqueForReview", "PostToWebhook"} |->
     IF l = "PostToWebhook" THEN "WebhookPostActionPerformer"
                            ELSE "EnqueueForReviewActionPerformer"]

Init ==
  /\ pc = "idle"
  /\ Records = <<>>
  /\ idx = 0
  /\ action_message = NoMessage
  /\ records_table = <<>>
  /\ performed = <<>>
  /\ registry = Registered
  /\ environ \in BOOLEAN
  /\ initialized = FALSE
  /\ initCalls = 0
  /\ config = Unset
  /\ clock = 1
  /\ result = "none"
  /\ error = NoError
  /\ log = <<>>
  /\ tableAtStart = 0
  /\ deliveredTotal = 0
  /\ delivered = [m \in Messages |-> 0]
  /\ completed = [m \in Messages |-> 0]
  /\ writeFailures = [m \in Messages |-> 0]

\* -------------------------------------------------------------- exceptions
\* lambda_handler has no try/except: an exception raised at record `at`
\* unwinds the loop and leaves the invocation; nothing written so far is
\* compensated.
RaiseSwallowed(kind, at) ==
  /\ pc' = "loop"
  /\ result' = result
  /\ error' = [kind |-> kind, at |-> at]
  /\ records_table' = records_table

RaiseRollingBack(kind, at) ==
  /\ pc' = "idle"
  /\ result' = "raised"
  /\ error' = [kind |-> kind, at |-> at]
  /\ records_table' = SubSeq(records_table, 1, tableAtStart)

Raise(kind, at) ==
  /\ pc' = "idle"
  /\ result' = "raised"
  /\ error' = [kind |-> kind, at |-> at]
  /\ records_table' = records_table

\* ----------------------------------------------------------------- actions
\* The transport invokes lambda_handler(event, context) with a batch.
Invoke ==
  /\ pc = "idle"
  /\ \E batch \in Batches :
       /\ deliveredTotal + Len(batch) <= MaxDelivered
       /\ Records' = batch
       /\ deliveredTotal' = deliveredTotal + Len(batch)
  /\ pc' = "init"
  /\ idx' = 0
  /\ action_message' = NoMessage
  /\ result' = "none"
  /\ error' = NoError
  /\ log' = <<>>
  /\ tableAtStart' = Len(records_table)
  /\ UNCHANGED << records_table, performed, registry, environ, config, initialized,
                  initCalls, clock, delivered, completed,
                  writeFailures >>

CacheNeverHit == FALSE

\* @lru_cache(maxsize=1): a call after a completed one returns the cached result
CacheHit == initialized

\* lambda_init_once(), memoized by lru_cache(maxsize=1).
lambda_init_once ==
  /\ pc = "init"
  /\ IF CacheHit
       THEN /\ pc' = "loop"
            /\ UNCHANGED << initialized, initCalls, config, result, error,
                            records_table >>
       ELSE IF environ
         THEN /\ initialized' = TRUE
              /\ initCalls' = initCalls + 1
              /\ config' = ConfigTableName
              /\ pc' = "loop"
              /\ UNCHANGED << result, error, records_table >>
         ELSE /\ Raise("init", 0)
              /\ UNCHANGED << initialized, initCalls, config >>
  /\ UNCHANGED << Records, idx, action_message, performed,
                  registry, environ, clock, log, tableAtStart, deliveredTotal,
                  delivered, completed,
                  writeFailures >>

NewEntry(msg, deser) ==
  [msg |-> msg, deser |-> deser, dispatch |-> "none", record |-> "none",
   before |-> Len(performed), calls |-> 0,
   tableBefore |-> Len(records_table), rows |-> 0, writes |-> 0]

SqsRecordFromTheEnd(i) == Records[Len(Records) + 1 - i]

\* for sqs_record in event["Records"]: the body taken in the i-th iteration
SqsRecord(i) == Records[i]

\* for sqs_record in event["Records"]: ActionMessage.from_aws_json(body)
NextRecord ==
  /\ pc = "loop"
  /\ idx < Len(Records)
  /\ idx' = idx + 1
  /\ LET body == SqsRecord(idx + 1) IN
       IF WellFormed(body)
         THEN /\ action_message' = FromAwsJson(body)
              /\ log' = Append(log, NewEntry(FromAwsJson(body), "ok"))
              /\ delivered' = [delivered EXCEPT ![FromAwsJson(body)] = @ + 1]
              /\ pc' = "dispatch"
              /\ UNCHANGED << result, error, records_table >>
         ELSE /\ action_message' = NoMessage
              /\ log' = Append(log, NewEntry(NoMessage, "raised"))
              /\ UNCHANGED delivered
              /\ Raise("deserialize", idx + 1)
  /\ UNCHANGED << Records, performed, registry, environ, config,
                  initialized, initCalls, clock, tableAtStart, deliveredTotal,
                  completed,
                  writeFailures >>

\* ActionPerformer.get(name)
ActionPerformerGet(name) ==
  IF name \in DOMAIN registry THEN registry[name] ELSE Absent

Invocation(handler, match_message, raised) ==
  [handler |-> handler, match_message |-> match_message, raised |-> raised]

MatchMessageViewOnly(msg) ==
  [content_key |-> msg.content_key,
   matched_hash |-> msg.matched_hash,
   matching_banked_signals |-> msg.matching_banked_signals]

\* perform_label_action(action_message, ...): the object bound to the
\* match_message parameter and handed on to perform_action.
MatchMessageArgument(msg) == msg

FoundAlways(action_performer) == TRUE

\* if action_performer := ActionPerformer.get(...): the lookup's truthiness
Found(action_performer) == action_performer # Absent

PerformActionTwice(action_performer, match_message, raised) ==
  << Invocation(action_performer, match_message, raised),
     Invocation(action_performer, match_message, raised) >>

\* action_performer.perform_action(match_message): the calls one dispatch makes
PerformAction(action_performer, match_message, raised) ==
  << Invocation(action_performer, match_message, raised) >>

RegistryWithFallback(name) ==
  IF name \in DOMAIN registry
    THEN registry
    ELSE [l \in DOMAIN registry \cup {name} |->
            IF l = name THEN "WebhookPostActionPerformer" ELSE registry[l]]

\* perform_label_action only looks the label up and calls the performer: it
\* registers, replaces and removes nothing.
RegistryAfterDispatch(name) == registry

perform_label_action_caught ==
  /\ pc = "dispatch"
  /\ LET action_performer == ActionPerformerGet(action_message.action_label.value) IN
       IF Found(action_performer)
         THEN \E raises \in BOOLEAN :
                LET calls == PerformAction(action_performer,
                                           MatchMessageArgument(action_message), raises) IN
                /\ performed' = performed \o calls
                /\ log' = [log EXCEPT ![idx].dispatch = IF raises THEN "raised" ELSE "true",
                                      ![idx].calls = Len(calls)]
                /\ pc' = "record"
                /\ UNCHANGED << result, error >>
         ELSE /\ log' = [log EXCEPT ![idx].dispatch = "false"]
              /\ pc' = "record"
              /\ UNCHANGED << performed, result, error >>
  /\ UNCHANGED << Records, idx, action_message, records_table, registry,
                  environ, config, initialized, initCalls, clock, tableAtStart,
                  deliveredTotal, delivered, completed,
                  writeFailures >>

\* perform_label_action(action_message, action_message.action_label)
perform_label_action ==
  /\ pc = "dispatch"
  /\ registry' = RegistryAfterDispatch(action_message.action_label.value)
  /\ LET action_performer == ActionPerformerGet(action_message.action_label.value) IN
       IF Found(action_performer)
         THEN \E raises \in BOOLEAN :
                LET calls == PerformAction(action_performer,
                                           MatchMessageArgument(action_message), raises) IN
                /\ performed' = performed \o calls
                /\ IF raises
                     THEN /\ log' = [log EXCEPT ![idx].dispatch = "raised",
                                                ![idx].calls = Len(calls)]
                          /\ Raise("handler", idx)
                     ELSE /\ log' = [log EXCEPT ![idx].dispatch = "true",
                                                ![idx].calls = Len(calls)]
                          /\ pc' = "record"
                          /\ UNCHANGED << result, error, records_table >>
         ELSE /\ log' = [log EXCEPT ![idx].dispatch = "false"]
              /\ pc' = "record"
              /\ UNCHANGED << performed, result, error, records_table >>
  /\ UNCHANGED << Records, idx, action_message,
                  environ, config, initialized, initCalls, clock, tableAtStart,
                  deliveredTotal, delivered, completed,
                  writeFailures >>

SerializeRulesAsOneBlob(rules) == << RulesToAwsJson(rules) >>

\* [rule.to_aws_json() for rule in action_message.action_rules]
SerializeRules(rules) == [k \in 1..Len(rules) |-> RuleToAwsJson(rules[k])]

\* ActionEvent(content_id=..., performed_at=..., action_label=..., action_rules=...)
ActionEvent(msg, now) ==
  [content_id |-> msg.content_key,
   performed_at |-> now,
   action_label |-> msg.action_label.value,
   action_rules |-> SerializeRules(msg.action_rules)]

AuditWritesIfPerformed(msg, now) ==
  IF log[idx].dispatch = "true" THEN << ActionEvent(msg, now) >> ELSE << >>

AuditWritesTwice(msg, now) == << ActionEvent(msg, now), ActionEvent(msg, now) >>

AuditWritesUnlessPresent(msg, now) ==
  IF \E r \in 1..Len(records_table) :
       /\ records_table[r].content_id = msg.content_key
       /\ records_table[r].action_label = msg.action_label.value
    THEN << >>
    ELSE << ActionEvent(msg, now) >>

\* The ActionEvents lambda_handler writes for one record: one write_to_table
\* call, whatever perform_label_action returned and whatever the table holds.
AuditWrites(msg, now) == << ActionEvent(msg, now) >>

PutItemOverwriting(table, rows) ==
  IF table # << >> /\ rows # << >>
    THEN SubSeq(table, 1, Len(table) - 1) \o rows
    ELSE table \o rows

\* write_to_table(table): each written ActionEvent becomes a new row.
PutItem(table, rows) == table \o rows

StorageFailureRetried ==
  /\ pc' = "record"
  /\ UNCHANGED << result, error, records_table >>

\* An exception of write_to_table is not caught in lambda_handler: it leaves
\* the invocation at the record whose write failed.
StorageFailure == Raise("storage", idx)

\* ActionEvent(...).write_to_table(records_table)
write_to_table ==
  /\ pc = "record"
  /\ clock' = clock + 1
  /\ \E fails \in BOOLEAN :
       IF fails
         THEN /\ log' = [log EXCEPT ![idx].record = "raised",
                                    ![idx].writes = @ + 1]
              /\ StorageFailure
              /\ writeFailures' = [writeFailures EXCEPT ![action_message] = @ + 1]
              /\ UNCHANGED completed
         ELSE LET rows == AuditWrites(action_message, clock) IN
              /\ records_table' = PutItem(records_table, rows)
              /\ log' = [log EXCEPT ![idx].record = "ok", ![idx].rows = Len(rows),
                                    ![idx].writes = @ + 1]
              /\ completed' = [completed EXCEPT ![action_message] = @ + 1]
              /\ UNCHANGED writeFailures
              /\ pc' = "loop"
              /\ UNCHANGED << result, error >>
  /\ UNCHANGED << Records, idx, action_message, performed, registry, environ, config,
                  initialized, initCalls, tableAtStart, deliveredTotal,
                  delivered >>

ReturnKeepsPolling ==
  /\ pc = "loop"
  /\ idx = Len(Records)
  /\ UNCHANGED vars

\* return {"action_performed": "true"}
Return ==
  /\ pc = "loop"
  /\ idx = Len(Records)
  /\ pc' = "idle"
  /\ result' = "success"
  /\ UNCHANGED << Records, idx, action_message, records_table, performed,
                  registry, environ, config, initialized, initCalls, clock, error, log,
                  tableAtStart, deliveredTotal, delivered, completed,
                  writeFailures >>

Next ==
  \/ Invoke
  \/ lambda_init_once
  \/ NextRecord
  \/ perform_label_action
  \/ write_to_table
  \/ Return

Spec == Init /\ [][Next]_vars

\* The steps lambda_handler itself takes once invoked.
Processing ==
  \/ lambda_init_once
  \/ NextRecord
  \/ perform_label_action
  \/ write_to_table
  \/ Return

\* A started invocation keeps executing: the interpreter runs the next
\* statement, and every handler call and table write returns or raises.
FairSpec == Init /\ [][Next]_vars /\ WF_vars(Processing)

TypeOK ==
  /\ pc \in {"idle", "init", "loop", "dispatch", "record"}
  /\ Records \in Batches
  /\ idx \in 0..Len(Records)
  /\ result \in {"none", "success", "raised"}
  /\ Len(log) = idx
\* ---------------------------------------------------------------- helpers
\* The MatchMessage view of a message: what matched, not why.
View(m) == << m.content_key, m.matched_hash, m.matching_banked_signals >>

\* Number of perform_action calls in `performed` after the iteration of
\* record j of this invocation ended (or now, when j is the last one begun).
PerformedAfter(j) ==
  IF j < Len(log) THEN log[j + 1].before ELSE Len(performed)

\* Number of rows in the table after the iteration of record j ended.
TableAfter(j) ==
  IF j < Len(log) THEN log[j + 1].tableBefore ELSE Len(records_table)

IsRegistered(m) == m.action_label.value \in DOMAIN registry

RowsFor(m) ==
  Cardinality({ r \in 1..Len(records_table) :
                  /\ records_table[r].content_id = m.content_key
                  /\ records_table[r].action_label = m.action_label.value })

CallsFor(m) ==
  Cardinality({ c \in 1..Len(performed) : performed[c].match_message = m })

\* ------------------------------------------------------------------ claims

\* C1: for every record whose label has a handler registered, once
\* perform_label_action has acted the handler registered for that label has
\* been invoked exactly once, with an argument whose content_key, matched_hash
\* and matching_banked_signals are those of the message on the wire, and the
\* dispatch returned true whenever the handler returned.
C1_RegisteredLabelDispatched ==
  \A j \in 1..Len(log) :
    (log[j].dispatch # "none" /\ IsRegistered(log[j].msg)) =>
       /\ PerformedAfter(j) = log[j].before + 1
       /\ LET call == performed[log[j].before + 1]
              sent == FromAwsJson(Records[j])
          IN  /\ call.handler = registry[sent.action_label.value]
              /\ View(call.match_message) = View(sent)
              /\ (~call.raised) <=> (log[j].dispatch = "true")

C1_Witness ==
  \E j \in 1..Len(log) :
    /\ log[j].dispatch = "true"
    /\ IsRegistered(log[j].msg)
    /\ Len(performed) > 0

\* C2: for every record whose label has no handler registered,
\* perform_label_action returns false, makes no perform_action call and
\* raises nothing.
C2_UnregisteredLabelReturnsFalse ==
  \A j \in 1..Len(log) :
    (log[j].dispatch # "none" /\ ~IsRegistered(log[j].msg)) =>
       /\ log[j].dispatch = "false"
       /\ PerformedAfter(j) = log[j].before
       /\ ~(error.kind = "handler" /\ error.at = j)

C2_Witness ==
  \E j \in 1..Len(log) :
    log[j].dispatch = "false" /\ ~IsRegistered(log[j].msg)

\* C3: for every record whose dispatch returned (true or false) the audit
\* write is the next thing done, and where the table took the write exactly
\* one ActionEvent carrying the message's content key and label was appended;
\* for an unregistered label that row is the only change: no handler call.
C3_RecordedWhateverDispatchReturned ==
  \A j \in 1..Len(log) :
    (log[j].dispatch \in {"true", "false"}) =>
       /\ (log[j].record = "none" => (pc = "record" /\ idx = j))
       /\ (log[j].record = "ok" =>
             /\ TableAfter(j) = log[j].tableBefore + 1
             /\ LET row == records_table[log[j].tableBefore + 1]
                    sent == FromAwsJson(Records[j])
                IN  /\ row.content_id = sent.content_key
                    /\ row.action_label = sent.action_label.value)
       /\ (log[j].dispatch = "false" => PerformedAfter(j) = log[j].before)

C3_Witness ==
  \E j \in 1..Len(log) :
    /\ log[j].dispatch = "false"
    /\ log[j].record = "ok"
    /\ records_table[log[j].tableBefore + 1].action_label = "Unregistered"

\* C4: when the handler invoked for a record raises, the exception leaves
\* perform_label_action and lambda_handler (it is not caught, the handler is
\* not called again) and no audit row is written for that record in that
\* invocation.
C4_HandlerFailurePropagates ==
  \A j \in 1..Len(log) :
    (log[j].dispatch = "raised") =>
       /\ pc = "idle"
       /\ result = "raised"
       /\ error = [kind |-> "handler", at |-> j]
       /\ log[j].record = "none"
       /\ Len(records_table) = log[j].tableBefore
       /\ Len(performed) = log[j].before + 1
       /\ performed[Len(performed)].raised

C4_Witness ==
  \E j \in 1..Len(log) :
    log[j].dispatch = "raised" /\ performed[Len(performed)].raised
\* C5 as stated: after a handler or storage failure at one record, every
\* later record of the batch is still dispatched and recorded.
C5_LaterRecordsStillAttempted ==
  (pc = "idle" /\ error.kind \in {"handler", "storage"}) =>
     \A j \in (error.at + 1)..Len(Records) :
        /\ j <= Len(log)
        /\ log[j].dispatch # "none"
        /\ log[j].record # "none"

\* C5 amended: a handler failure or an audit-write failure at record i ends
\* the invocation there: the exception leaves lambda_handler, and no later
\* record of the batch is deserialized, dispatched or recorded in it.
C5_FailureEndsInvocation ==
  (error.kind \in {"handler", "storage"}) =>
     /\ pc = "idle"
     /\ result = "raised"
     /\ idx = error.at
     /\ Len(log) = error.at
     /\ Len(records_table) = log[error.at].tableBefore
     /\ Len(performed) = log[error.at].before
                           + (IF IsRegistered(log[error.at].msg) THEN 1 ELSE 0)
     /\ Len(records_table) - tableAtStart = error.at - 1

C5_Witness ==
  /\ error.kind \in {"handler", "storage"}
  /\ error.at < Len(Records)
  /\ WellFormed(Records[error.at + 1])

\* C6 as stated: when a body of the batch fails to deserialize, every other
\* record of the batch, before and after it, is dispatched and recorded.
C6_OtherRecordsStillProcessed ==
  (pc = "idle" /\ error.kind = "deserialize") =>
     \A j \in 1..Len(Records) :
        (j # error.at /\ WellFormed(Records[j])) =>
           /\ j <= Len(log)
           /\ log[j].dispatch # "none"
           /\ log[j].record # "none"

\* C6 amended: when a body fails to deserialize, the records before it have
\* been dispatched and recorded, the exception leaves lambda_handler at the
\* malformed record (the failure is that record's), and no record after it is
\* deserialized, dispatched or recorded in that invocation.
C6_MalformedBodyEndsInvocation ==
  (error.kind = "deserialize") =>
     /\ pc = "idle"
     /\ result = "raised"
     /\ error.at \in 1..Len(Records)
     /\ ~WellFormed(Records[error.at])
     /\ idx = error.at
     /\ Len(log) = error.at
     /\ log[error.at].deser = "raised"
     /\ log[error.at].dispatch = "none"
     /\ log[error.at].record = "none"
     /\ \A j \in 1..(error.at - 1) :
          /\ log[j].dispatch \in {"true", "false"}
          /\ log[j].record = "ok"
     /\ Len(records_table) = tableAtStart + error.at - 1
     /\ Len(performed) = log[error.at].before

C6_Witness ==
  /\ error.kind = "deserialize"
  /\ error.at = 2
  /\ Len(Records) = 3
  /\ WellFormed(Records[1])
  /\ WellFormed(Records[3])

AnyFailure ==
  \/ error.kind # "none"
  \/ \E j \in 1..Len(log) :
       \/ log[j].deser = "raised"
       \/ log[j].dispatch = "raised"
       \/ log[j].record = "raised"

\* C7: lambda_handler swallows no failure: it returns the success indicator
\* only when every record of the batch was deserialized, dispatched and
\* recorded without a failure, and once anything has failed the invocation
\* has ended by raising.
C7_SuccessOnlyWithoutFailure ==
  /\ (result = "success" =>
        /\ pc = "idle"
        /\ initialized
        /\ error = NoError
        /\ Len(log) = Len(Records)
        /\ \A j \in 1..Len(Records) :
             /\ WellFormed(Records[j])
             /\ log[j].deser = "ok"
             /\ log[j].dispatch \in {"true", "false"}
             /\ log[j].record = "ok"
             /\ \A c \in (log[j].before + 1)..PerformedAfter(j) :
                  ~performed[c].raised)
  /\ (AnyFailure => (pc = "idle" /\ result = "raised" /\ error.kind # "none"))

C7_Witness ==
  /\ result = "success"
  /\ Len(Records) >= 2

\* C8: an invocation that returns success for a batch of n records has
\* appended exactly n audit rows, the j-th of them for the j-th record.
C8_OneRowPerRecord ==
  (result = "success") =>
     /\ Len(records_table) = tableAtStart + Len(Records)
     /\ \A j \in 1..Len(Records) :
          LET row == records_table[tableAtStart + j]
              sent == FromAwsJson(Records[j])
          IN  /\ row.content_id = sent.content_key
              /\ row.action_label = sent.action_label.value

C8_Witness ==
  /\ result = "success"
  /\ Len(Records) >= 2
  /\ Len(records_table) >= tableAtStart + 2

\* C9: every audit row written for a record has content_id equal to the
\* message's content_key, action_label equal to the message's label value,
\* and action_rules of the same length as the message's rules, entry k being
\* the serialization of rule k alone.
C9_RowCarriesMessageFields ==
  \A j \in 1..Len(log) :
    (log[j].record = "ok") =>
       LET row == records_table[log[j].tableBefore + 1]
           sent == FromAwsJson(Records[j])
       IN  /\ row.content_id = sent.content_key
           /\ row.action_label = sent.action_label.value
           /\ Len(row.action_rules) = Len(sent.action_rules)
           /\ \A k \in 1..Len(sent.action_rules) :
                /\ row.action_rules[k] = RuleToAwsJson(sent.action_rules[k])
                /\ RuleFromAwsJson(row.action_rules[k]) = sent.action_rules[k]

C9_Witness ==
  \E j \in 1..Len(log) :
    /\ log[j].record = "ok"
    /\ Len(records_table[log[j].tableBefore + 1].action_rules) = 2

\* C10: nothing is deduplicated: a message delivered k times, each delivery
\* processed to its end, has k audit rows in the table and, when its label
\* is registered, k handler invocations.
C10_RedeliveryDuplicates ==
  \A m \in Messages :
    (delivered[m] = completed[m]) =>
       /\ RowsFor(m) = completed[m]
       /\ (IsRegistered(m) => CallsFor(m) = completed[m])

C10_Witness ==
  \E m \in Messages :
    /\ IsRegistered(m)
    /\ pc = "idle"
    /\ result = "success"
    /\ Records = << ToAwsJson(m) >>
    /\ tableAtStart > 0
    /\ delivered[m] = completed[m]
    /\ completed[m] >= 2
    /\ RowsFor(m) >= 2
\* C11: process-wide initialization happens at most once per process:
\* HMAConfig.initialize is never executed a second time, and once
\* lambda_init_once has completed, no later step (a later lambda_init_once
\* call included) changes the configuration, the cache or the set of
\* resolvable labels.
C11_InitializedOnce ==
  [][ /\ initCalls' <= 1
      /\ (initialized =>
            /\ initialized'
            /\ initCalls' = initCalls
            /\ config' = config
            /\ DOMAIN registry' = DOMAIN registry) ]_vars

C11_Witness ==
  /\ pc = "loop"
  /\ tableAtStart > 0
  /\ initialized
  /\ initCalls = 1
  /\ config = ConfigTableName
MatchEvidenceFields == {"content_key", "matched_hash", "matching_banked_signals"}

\* C12 as stated: the value handed to perform_action carries only the match
\* evidence; the action label and the action rules are not in it.
C12_OnlyMatchEvidence ==
  \A c \in 1..Len(performed) :
    DOMAIN performed[c].match_message = MatchEvidenceFields

\* C12 amended: the value handed to perform_action is the action message
\* itself: it carries the match evidence and, undropped, the action label and
\* the action rules of the message.
C12_WholeActionMessagePassed ==
  \A j \in 1..Len(log) :
    (log[j].dispatch # "none" /\ IsRegistered(log[j].msg)) =>
       LET passed == performed[log[j].before + 1].match_message
           sent == FromAwsJson(Records[j])
       IN  /\ MatchEvidenceFields \subseteq DOMAIN passed
           /\ {"action_label", "action_rules"} \subseteq DOMAIN passed
           /\ passed = sent

C12_Witness ==
  \E j \in 1..Len(log) :
    /\ log[j].dispatch = "true"
    /\ performed[log[j].before + 1].match_message.action_label.value = "EnqueForReview"
    /\ Len(performed[log[j].before + 1].match_message.action_rules) = 2
\* C13: the audit store is append-only: over every step of every invocation,
\* failing ones included, the table before the step is a prefix of the table
\* after it, so no row once written is modified or removed.
C13_TableAppendOnly ==
  [][ /\ Len(records_table') >= Len(records_table)
      /\ SubSeq(records_table', 1, Len(records_table)) = records_table ]_vars

C13_Witness ==
  /\ pc = "idle"
  /\ result = "raised"
  /\ tableAtStart > 0
  /\ Len(records_table) > tableAtStart
\* C14: within an invocation the records are handled one at a time in the
\* order of event["Records"], each in the order deserialize, dispatch,
\* record: a write is made only for a record whose dispatch has returned,
\* and record j+1 is begun only when the row of record j is in the table.
C14_SequentialInOrder ==
  /\ Len(log) = idx
  /\ \A j \in 1..Len(log) :
       /\ (log[j].deser = "ok" =>
             /\ WellFormed(Records[j])
             /\ log[j].msg = FromAwsJson(Records[j]))
       /\ (log[j].dispatch # "none" => log[j].deser = "ok")
       /\ (log[j].record # "none" => log[j].dispatch \in {"true", "false"})
       /\ (j < Len(log) =>
             /\ log[j].record = "ok"
             /\ log[j + 1].tableBefore = log[j].tableBefore + 1
             /\ log[j + 1].before >= log[j].before)
  /\ (pc = "dispatch" =>
        /\ log[idx].deser = "ok"
        /\ log[idx].dispatch = "none"
        /\ action_message = FromAwsJson(Records[idx]))
  /\ (pc = "record" =>
        /\ log[idx].dispatch \in {"true", "false"}
        /\ log[idx].record = "none"
        /\ action_message = FromAwsJson(Records[idx]))

C14_Witness ==
  /\ pc = "record"
  /\ idx = 2
  /\ Records[1] # Records[2]
  /\ log[1].record = "ok"
  /\ log[2].dispatch = "true"
\* C15: a failing audit write is surfaced and not retried: the exception
\* leaves lambda_handler at that record, the write was attempted once, and
\* no row for the record is in the table.
C15_WriteFailureSurfacedOnce ==
  \A j \in 1..Len(log) :
    /\ log[j].writes <= 1
    /\ (log[j].record = "raised" =>
          /\ pc = "idle"
          /\ result = "raised"
          /\ error = [kind |-> "storage", at |-> j]
          /\ log[j].writes = 1
          /\ j = Len(log)
          /\ Len(records_table) = log[j].tableBefore)

C15_Witness ==
  \E j \in 1..Len(log) :
    /\ log[j].record = "raised"
    /\ log[j].dispatch = "true"
    /\ log[j].writes = 1
\* C16: message processing only reads the registry: no step of the message
\* loop or of perform_label_action changes the label-to-handler mapping.
C16_RegistryOnlyRead ==
  [][ (pc \in {"loop", "dispatch", "record"}) => registry' = registry ]_vars

C16_Witness ==
  /\ pc = "idle"
  /\ result = "success"
  /\ registry = Registered
  /\ \E j \in 1..Len(log) : log[j].dispatch = "false"
  /\ \E j \in 1..Len(log) : log[j].dispatch = "true"
\* C17: every invocation on a finite batch, with handler calls and table
\* writes that each return or raise, eventually leaves the processing state
\* and is idle again, having returned the success indicator or raised.
C17_InvocationEnds ==
  (pc # "idle") ~> (pc = "idle" /\ result \in {"success", "raised"})

C17_Witness ==
  /\ pc = "idle"
  /\ result \in {"success", "raised"}
  /\ Len(log) = 3
CompletedCallsFor(m) ==
  Cardinality({ c \in 1..Len(performed) :
                  performed[c].match_message = m /\ ~performed[c].raised })

\* 1 while lambda_handler stands between the dispatch and the write for m.
BetweenDispatchAndRecord(m) ==
  IF pc = "record" /\ action_message = m THEN 1 ELSE 0

\* C18: for each message with a registered label the audit rows written for
\* it never outnumber the handler invocations completed for it, and the two
\* differ by exactly the writes for it that failed plus the one that is still
\* to come when the handler stands between its dispatch and its write.
C18_RowsNeverExceedCompletedCalls ==
  \A m \in Messages :
    IsRegistered(m) =>
       /\ RowsFor(m) <= CompletedCallsFor(m)
       /\ CompletedCallsFor(m) - RowsFor(m)
            = writeFailures[m] + BetweenDispatchAndRecord(m)

C18_Witness ==
  \E m \in Messages :
    /\ IsRegistered(m)
    /\ pc = "idle"
    /\ writeFailures[m] = 1
    /\ RowsFor(m) >= 1
    /\ CompletedCallsFor(m) = RowsFor(m) + 1
\* C19: a failing invocation rolls nothing back: the rows written in an
\* invocation are always those of a prefix of its batch, in order; when it
\* has failed at record i the rows and the handler invocations of the i-1
\* records before it are in place; and over the process life every completed
\* iteration of a message keeps its row, so a redelivered batch adds to them.
C19_NoRollbackPrefixRecorded ==
  LET n == Len(records_table) - tableAtStart IN
  /\ n \in 0..Len(Records)
  /\ \A j \in 1..n :
       /\ WellFormed(Records[j])
       /\ LET row == records_table[tableAtStart + j]
              sent == FromAwsJson(Records[j])
          IN  /\ row.content_id = sent.content_key
              /\ row.action_label = sent.action_label.value
              /\ row.action_rules = SerializeRules(sent.action_rules)
  /\ ((result = "raised" /\ error.at >= 1) =>
        /\ n = error.at - 1
        /\ \A j \in 1..(error.at - 1) :
             /\ log[j].record = "ok"
             /\ (IsRegistered(log[j].msg) =>
                   performed[log[j].before + 1]
                     = Invocation(registry[log[j].msg.action_label.value],
                                  log[j].msg, FALSE)))
  /\ \A m \in Messages :
       /\ RowsFor(m) = completed[m]
       /\ (IsRegistered(m) => CallsFor(m) >= completed[m])

C19_Witness ==
  \E m \in Messages :
    /\ IsRegistered(m)
    /\ pc = "idle"
    /\ result = "raised"
    /\ error.at = 2
    /\ Records[1] = ToAwsJson(m)
    /\ tableAtStart >= 1
    /\ Len(records_table) = tableAtStart + 1
    /\ RowsFor(m) = 2
    /\ CallsFor(m) >= 2
    /\ delivered[m] > completed[m]
\* C20: in every invocation lambda_init_once has completed before any record
\* is deserialized, dispatched or recorded; when it raises, the invocation
\* ends there with no record touched, no handler called and no row written.
C20_InitBeforeAnyRecord ==
  /\ ((pc \in {"loop", "dispatch", "record"} \/ Len(log) > 0) =>
        /\ initialized
        /\ initCalls = 1
        /\ config = ConfigTableName)
  /\ (error.kind = "init" =>
        /\ ~initialized
        /\ pc = "idle"
        /\ result = "raised"
        /\ idx = 0
        /\ Len(log) = 0
        /\ Len(records_table) = tableAtStart
        /\ Len(performed) = 0)

C20_Witness ==
  /\ error.kind = "init"
  /\ pc = "idle"
  /\ Len(Records) >= 1
  /\ WellFormed(Records[1])
====
